---------------------------- MODULE Spec2Model ----------------------------
(***************************************************************************)
(* A model of pylegendgeom's LEGEND-1000 baseline geometry:                *)
(*   - LTank.build_copper_inserts : the single tower layout, its          *)
(*     replication to four towers and the vertical re-basing;              *)
(*   - L1000Baseline._build_world / _place_crystals : the placement pass   *)
(*     in placeholder mode and in configured (csv + JSON) mode;            *)
(*   - DetICPC : reading a shape resource and decoding its profile.        *)
(*                                                                         *)
(* Numbers.  Python floats are modelled as fixed-point integers with Fix   *)
(* units per 1.0 (so 34.0 [cm] is 34 * Fix); Python ints (loop indices,    *)
(* counts, copy numbers) are plain integers.  Angles are integer degrees:  *)
(* pi is 180, and cos/sin/tan are tables over the angles the program and   *)
(* the modelled inputs use, rounded to 1/Fix.                              *)
(*                                                                         *)
(* Text.  A Python str is a sequence of tokens; str(n) is the sequence of  *)
(* decimal digits of n and "+" is sequence concatenation.                  *)
(*                                                                         *)
(* Dictionaries.  A Python dict is a sequence of <<key, value>> pairs in   *)
(* insertion order; assigning to a key that is present replaces its value  *)
(* in place.                                                               *)
(*                                                                         *)
(* The pyg4ometry registry is an external collaborator: it is modelled as  *)
(* the set of logical-volume names registered and the list of the          *)
(* PhysicalVolume calls made, and it accepts every call.                   *)
(***************************************************************************)
EXTENDS Integers, Sequences, FiniteSets, TLC

VARIABLES
    pc,                 \* position of the program
    filled,             \* L1000Baseline(filled=...)
    det_config_file,    \* L1000Baseline(det_config_file=...)
    j, i,               \* loop indices of the local layout loops
    zmin,               \* tracked minimum z of the local layout
    local_store,        \* dict (string, layer, copynr) -> [x, y, z]
    maxid, zshift,      \* computed before the tower loop
    tower,              \* index of the tower loop
    locStore,           \* LTank.locStore: dict (tower,string,layer,copynr) -> [x,y,z]
    logicalVolumeDict,  \* names of the logical volumes in the registry
    towerPVs,           \* PhysicalVolume calls of build_copper_inserts
    placement_map,      \* _place_crystals: dict (tower,string,layer) -> [x,y,z]
    rows,               \* the rows the csv reader has yielded so far
    line_num,           \* reader.line_num
    placementlist, namelist, lv_list,   \* _place_crystals' three lists
    n,                  \* index of the loop over a dict or list
    placements,         \* PhysicalVolume calls of _place_crystals
    warnings,           \* logger.warning calls
    exception,          \* the exception that left the program, or NoException
    resource,           \* the shape resource handed to a stand-alone DetICPC
    det                 \* the last DetICPC object constructed

vars == <<pc, filled, det_config_file, j, i, zmin, local_store, maxid, zshift,
          tower, locStore, logicalVolumeDict, towerPVs, placement_map, rows,
          line_num, placementlist, namelist, lv_list, n, placements, warnings,
          exception, resource, det>>

---------------------------------------------------------------------------
(* Numbers, text and dictionaries                                          *)

\* Units per 1.0 of the fixed-point representation of a Python float.
Fix == 1000

\* The float of an integer literal.
R(x) == x * Fix

\* Product of two floats.
Mul(a, b) == (a * b) \div Fix

\* math.pi; angles are integer degrees.
pi == 180

\* math.cos on the multiples of 30 degrees, rounded to 1/Fix.
cos(a) ==
    CASE a % 360 = 0   -> 1000
      [] a % 360 = 30  -> 866
      [] a % 360 = 60  -> 500
      [] a % 360 = 90  -> 0
      [] a % 360 = 120 -> -500
      [] a % 360 = 150 -> -866
      [] a % 360 = 180 -> -1000
      [] a % 360 = 210 -> -866
      [] a % 360 = 240 -> -500
      [] a % 360 = 270 -> 0
      [] a % 360 = 300 -> 500
      [] a % 360 = 330 -> 866

\* math.sin on the multiples of 30 degrees.
sin(a) == cos(a + 270)

\* numpy.deg2rad: degrees to the angle unit of the model.
deg2rad(alpha) == (alpha * pi) \div 180

\* math.tan on the taper angles of the modelled shape resources.
tan(a) ==
    CASE a = 0  -> 0
      [] a = 30 -> 577
      [] a = 45 -> 1000
      [] a = 60 -> 1732

Digits == <<"0", "1", "2", "3", "4", "5", "6", "7", "8", "9">>

\* str(x) of a non-negative int: its decimal digits.
RECURSIVE str(_)
str(x) == IF x < 10 THEN <<Digits[x + 1]>>
          ELSE str(x \div 10) \o <<Digits[(x % 10) + 1]>>

\* dict: key in d
DictHas(d, k) == \E m \in 1..Len(d) : d[m][1] = k

\* dict: d[k] of a key that is present
DictGet(d, k) == d[CHOOSE m \in 1..Len(d) : d[m][1] = k][2]

\* dict: d[k] = v
DictSet(d, k, v) ==
    IF DictHas(d, k)
    THEN [m \in 1..Len(d) |-> IF d[m][1] = k THEN <<k, v>> ELSE d[m]]
    ELSE Append(d, <<k, v>>)

\* dict: the keys, as a set
DictKeys(d) == {d[m][1] : m \in 1..Len(d)}

\* No exception has left the program.
NoException == [type |-> "none", arg |-> <<>>, at |-> "none"]

\* An exception of a type, with its argument, raised at a place of the code.
Raise(type, arg, at) == [type |-> type, arg |-> arg, at |-> at]

---------------------------------------------------------------------------
(* LTank.build_copper_inserts: parameters                                  *)

cu_height == 400 * Fix          \* [cm]
cu_shift == 150 * Fix           \* [cm]
ring_rad == 100 * Fix           \* [cm]
string_rad_AsRing == ring_rad
string_rad == 34 * Fix          \* [cm]
inner_ring_AsString == string_rad
inner_ring == (27 * Fix) \div 2 \* 13.5 [cm]
n_of_layers == 8
n_of_strings == 12
placeholder_height == 13 * Fix  \* [cm]
gap == 3 * Fix                  \* [cm]
layerthickness == gap + placeholder_height

\* The strings of the second loop, "for j in [12, 13]".
inner_strings_One == <<12>>
inner_strings == <<12, 13>>

step_Full == 10 * layerthickness
step == (10 * layerthickness) \div 2
angle == (2 * pi) \div n_of_strings
ltmm == layerthickness * 10

\* zpos of layer i, the same expression in both loops.
Zpos_ByMode(ii) ==
    -step + Mul((n_of_layers * Fix) \div 2, ltmm)
          - ii * (IF filled THEN ltmm ELSE 2 * ltmm)
Zpos(ii) == -step + Mul((n_of_layers * Fix) \div 2, ltmm) - ii * ltmm

\* The key of a local slot: (string, layer, copynr).
LocalKey_TwoLayers(jj, ii) == <<jj, ii, ii + jj * 2>>
LocalKey(jj, ii) == <<jj, ii, ii + jj * n_of_layers>>

\* "if zpos < zmin: zmin = zpos"
ZminUpdate_Greater(zpos, zm) == IF zpos > zm THEN zpos ELSE zm
ZminUpdate_Never(zpos, zm) == zm
ZminUpdate(zpos, zm) == IF zpos < zm THEN zpos ELSE zm

\* The tower centres pos1..pos4.
trsf == << <<10 * ring_rad, 0, 10 * cu_shift>>,
           <<0, 10 * ring_rad, 10 * cu_shift>>,
           <<-10 * ring_rad, 0, 10 * cu_shift>>,
           <<0, -10 * ring_rad, 10 * cu_shift>> >>

\* "zshift = 10 * cu_height / 2 + zmin - 100"
Zshift(zm) == (10 * cu_height) \div 2 + zm - R(100)

\* The composite key of a local key in a tower: (tower, string, layer, copynr).
TowerKey_StringsOnly(t, k, mx) == <<t, k[1], k[2], t * n_of_strings + k[3]>>
TowerKey(t, k, mx) == <<t, k[1], k[2], t * mx + k[3]>>

\* The composite value of a local value in the tower at vec.
TowerVal_Translated(v, vec, zs) == <<v[1] + vec[1], v[2] + vec[2], v[3] - zs>>
TowerVal(v, vec, zs) == <<v[1], v[2], v[3] - zs>>

---------------------------------------------------------------------------
(* coaxialTemplate.icpc: DetICPC                                           *)
(*                                                                         *)
(* A shape resource is [state, data]: state "missing" (open fails),        *)
(* "garbage" (json.load fails) or "json", and data the decoded JSON        *)
(* object, a function from field names to values.                          *)

\* The logical volume of a DetICPC that built none: self.crystalLV = None.
NoneLV == [isNone |-> TRUE, name |-> <<>>, solid |-> <<>>, pR |-> <<>>, pZ |-> <<>>]

\* d[path[1]][path[2]]... exists
RECURSIVE HasPath(_, _)
HasPath(d, path) ==
    IF path = <<>> THEN TRUE
    ELSE /\ Head(path) \in DOMAIN d
         /\ HasPath(d[Head(path)], Tail(path))

\* The subscriptions of _decode_polycone, in program order.
AccessOrder == <<
    <<"height_in_mm">>,
    <<"radius_in_mm">>,
    <<"well">>,
    <<"well", "gap_in_mm">>,
    <<"well", "radius_in_mm">>,
    <<"groove">>,
    <<"groove", "outer_radius_in_mm">>,
    <<"groove", "depth_in_mm">>,
    <<"groove", "width_in_mm">>,
    <<"taper">>,
    <<"taper", "top">>,
    <<"taper", "top", "inner">>,
    <<"taper", "top", "inner", "angle_in_deg">>,
    <<"taper", "top", "inner", "height_in_mm">>,
    <<"taper", "top", "outer">>,
    <<"taper", "top", "outer", "angle_in_deg">>,
    <<"taper", "top", "outer", "height_in_mm">>,
    <<"taper", "bottom">>,
    <<"taper", "bottom", "outer">>,
    <<"taper", "bottom", "outer", "angle_in_deg">>,
    <<"taper", "bottom", "outer", "height_in_mm">> >>

\* The first subscription of _decode_polycone that raises KeyError; 0 if none.
FirstMissing(d) ==
    IF \A m \in 1..Len(AccessOrder) : HasPath(d, AccessOrder[m]) THEN 0
    ELSE CHOOSE m \in 1..Len(AccessOrder) :
            /\ ~HasPath(d, AccessOrder[m])
            /\ \A q \in 1..(m - 1) : HasPath(d, AccessOrder[q])

\* "first point": the appends of lines 133-134.
FirstPoint_AtGap(d) ==
    [r |-> <<d.well.radius_in_mm>>, z |-> <<d.well.gap_in_mm>>]
FirstPoint(d) ==
    [r |-> <<d.well.radius_in_mm>>,
     z |-> <<d.height_in_mm - d.well.gap_in_mm>>]

\* "taper top", inner: the appends of lines 148-155.
InnerTop_OnePoint(d) ==
    [r |-> <<d.well.radius_in_mm>>, z |-> <<0>>]
InnerTop(d) ==
    LET det_h == d.height_in_mm
        wrad == d.well.radius_in_mm
        alpha == d.taper.top.inner.angle_in_deg
        tinheight == d.taper.top.inner.height_in_mm
        tstepinner == Mul(tinheight, tan(deg2rad(alpha)))
    IN IF tinheight > 0
       THEN [r |-> <<wrad, wrad + tstepinner>>, z |-> <<det_h - tinheight, 0>>]
       ELSE [r |-> <<wrad>>, z |-> <<0>>]

\* "taper top", outer: the appends of lines 161-168.
OuterTop_TopAtHeight(d) ==
    LET det_h == d.height_in_mm
        det_r == d.radius_in_mm
        toutheight == d.taper.top.outer.height_in_mm
        tstepouter == Mul(toutheight, tan(deg2rad(d.taper.top.outer.angle_in_deg)))
    IN IF toutheight > 0
       THEN [r |-> <<det_r - tstepouter, det_r>>, z |-> <<det_h, det_h - toutheight>>]
       ELSE [r |-> <<det_r>>, z |-> <<det_h>>]
OuterTop_AlwaysTapered(d) ==
    LET det_r == d.radius_in_mm
        toutheight == d.taper.top.outer.height_in_mm
        tstepouter == Mul(toutheight, tan(deg2rad(d.taper.top.outer.angle_in_deg)))
    IN [r |-> <<det_r - tstepouter, det_r>>, z |-> <<0, toutheight>>]
OuterTop(d) ==
    LET det_r == d.radius_in_mm
        alpha == d.taper.top.outer.angle_in_deg
        toutheight == d.taper.top.outer.height_in_mm
        tstepouter == Mul(toutheight, tan(deg2rad(alpha)))
    IN IF toutheight > 0
       THEN [r |-> <<det_r - tstepouter, det_r>>, z |-> <<0, toutheight>>]
       ELSE [r |-> <<det_r>>, z |-> <<0>>]

\* taper bottom, outer: the appends of lines 175-182.
BottomOuter_TestsTopHeight(d) ==
    LET det_h == d.height_in_mm
        det_r == d.radius_in_mm
        toutheight == d.taper.bottom.outer.height_in_mm
        tstepouter == Mul(toutheight, tan(deg2rad(d.taper.bottom.outer.angle_in_deg)))
    IN IF d.taper.top.outer.height_in_mm > 0
       THEN [r |-> <<det_r, det_r - tstepouter>>, z |-> <<det_h - toutheight, det_h>>]
       ELSE [r |-> <<det_r>>, z |-> <<det_h>>]
BottomOuter(d) ==
    LET det_h == d.height_in_mm
        det_r == d.radius_in_mm
        alpha == d.taper.bottom.outer.angle_in_deg
        toutheight == d.taper.bottom.outer.height_in_mm
        tstepouter == Mul(toutheight, tan(deg2rad(alpha)))
    IN IF toutheight > 0
       THEN [r |-> <<det_r, det_r - tstepouter>>, z |-> <<det_h - toutheight, det_h>>]
       ELSE [r |-> <<det_r>>, z |-> <<det_h>>]

\* "walk rest of shape": the appends of lines 185-196.
RestOfShape_GrooveAtZero(d) ==
    LET det_h == d.height_in_mm
        wgap == d.well.gap_in_mm
        grad == d.groove.outer_radius_in_mm
        gdepth == d.groove.depth_in_mm
        gwidth == d.groove.width_in_mm
    IN [r |-> <<grad, grad, grad - gwidth, grad - gwidth, 0, 0>>,
        z |-> <<0, gdepth, gdepth, 0, det_h, det_h - wgap>>]
RestOfShape(d) ==
    LET det_h == d.height_in_mm
        wgap == d.well.gap_in_mm
        grad == d.groove.outer_radius_in_mm
        gdepth == d.groove.depth_in_mm
        gwidth == d.groove.width_in_mm
    IN [r |-> <<grad, grad, grad - gwidth, grad - gwidth, 0, 0>>,
        z |-> <<det_h, det_h - gdepth, det_h - gdepth, det_h, det_h, det_h - wgap>>]

\* The lists rlist (f = "r") and zlist (f = "z") when _decode_polycone
\* returns (miss = 0) or when its subscription number miss raises.
DecodeList(d, miss, f) ==
       (IF miss = 0 \/ miss > 5 THEN FirstPoint(d)[f] ELSE <<>>)
    \o (IF miss = 0 \/ miss > 14 THEN InnerTop(d)[f] ELSE <<>>)
    \o (IF miss = 0 \/ miss > 17 THEN OuterTop(d)[f] ELSE <<>>)
    \o (IF miss = 0 THEN BottomOuter(d)[f] \o RestOfShape(d)[f] ELSE <<>>)

\* DetICPC._decode_polycone: [raised, rlist, zlist], the two lists being the
\* local lists at the return or at the raise.
DecodePolycone(datadict) ==
    LET miss == FirstMissing(datadict)
    IN [raised |-> IF miss = 0 THEN NoException
                   ELSE Raise("KeyError",
                              <<AccessOrder[miss][Len(AccessOrder[miss])]>>,
                              "_decode_polycone"),
        rlist |-> DecodeList(datadict, miss, "r"),
        zlist |-> DecodeList(datadict, miss, "z")]

\* DetICPC._read_from_file: [detname, warnings, isNone, data, raised].
ReadFromFile(res) ==
    IF res.state # "json" \/ "det_name" \notin DOMAIN res.data
    THEN [detname |-> <<>>, warnings |-> <<"Error parsing JSON file.">>,
          isNone |-> TRUE, data |-> <<>>, raised |-> NoException]
    ELSE IF "geometry" \notin DOMAIN res.data
    THEN [detname |-> res.data.det_name, warnings |-> <<>>, isNone |-> TRUE,
          data |-> <<>>,
          raised |-> Raise("KeyError", <<"geometry">>, "_read_from_file")]
    ELSE [detname |-> res.data.det_name, warnings |-> <<>>, isNone |-> FALSE,
          data |-> res.data.geometry, raised |-> NoException]

\* DetICPC._build_crystal: [raised, lv].
BuildCrystal_KeepPartial(data_dict) ==
    LET dec == DecodePolycone(data_dict)
    IN [raised |-> dec.raised,
        lv |-> [isNone |-> FALSE, name |-> <<"GeLV">>, solid |-> <<"Ge">>,
                pR |-> dec.rlist, pZ |-> dec.zlist]]
BuildCrystal(data_dict) ==
    LET dec == DecodePolycone(data_dict)
    IN IF dec.raised.type # "none"
       THEN [raised |-> dec.raised, lv |-> NoneLV]
       ELSE [raised |-> NoException,
             lv |-> [isNone |-> FALSE, name |-> <<"GeLV">>, solid |-> <<"Ge">>,
                     pR |-> dec.rlist, pZ |-> dec.zlist]]

\* DetICPC.__init__: the object's attributes, the warnings logged and the
\* exception that left the constructor (then no object reaches the caller).
DetICPC(res) ==
    LET rd == ReadFromFile(res)
    IN IF rd.raised.type # "none" \/ rd.isNone
       THEN [detname |-> rd.detname, crystalLV |-> NoneLV,
             warnings |-> rd.warnings, raised |-> rd.raised]
       ELSE LET b == BuildCrystal(rd.data)
            IN [detname |-> rd.detname, crystalLV |-> b.lv,
                warnings |-> rd.warnings, raised |-> b.raised]

\* The DetICPC before any is constructed.
NoDet == [detname |-> <<>>, crystalLV |-> NoneLV, warnings |-> <<>>,
          raised |-> NoException]

---------------------------------------------------------------------------
(* Inputs: shape resources and configuration rows                          *)

\* A taper record of a shape resource.
Taper(a, h) == [angle_in_deg |-> a, height_in_mm |-> h]

\* The tapers the modelled shape resources draw from: absent (height 0, with
\* and without an angle), present, and present with a horizontal step
\* (30 mm * tan 60 deg) wider than the crystal's radius.
Tapers == {Taper(0, 0), Taper(45, 0), Taper(45, R(5)), Taper(30, R(6)),
           Taper(60, R(30))}

\* The "geometry" object of a complete shape resource.
Geometry(ti, to, bo) ==
    [height_in_mm |-> R(80),
     radius_in_mm |-> R(40),
     well |-> [gap_in_mm |-> R(30), radius_in_mm |-> R(5)],
     groove |-> [outer_radius_in_mm |-> R(15), depth_in_mm |-> R(2),
                 width_in_mm |-> R(3)],
     taper |-> [top |-> [inner |-> ti, outer |-> to],
                bottom |-> [outer |-> bo]]]

\* d without the field at path.
RECURSIVE Without(_, _)
Without(d, path) ==
    IF Len(path) = 1
    THEN [k \in DOMAIN d \ {path[1]} |-> d[k]]
    ELSE [k \in DOMAIN d |->
             IF k = path[1] THEN Without(d[k], Tail(path)) ELSE d[k]]

\* A shape resource that opens and parses.
Json(data) == [state |-> "json", data |-> data]

\* The shape resources a stand-alone DetICPC is constructed from: complete
\* ones with every choice of tapers; ones that lack det_name, geometry or one
\* (nested) geometry field; one that does not parse; one that does not open.
Resources ==
    LET Full == {[det_name |-> <<"V01">>, geometry |-> Geometry(ti, to, bo)] :
                    ti \in Tapers, to \in Tapers, bo \in Tapers}
        Some == {[det_name |-> <<"V01">>,
                  geometry |-> Geometry(t, Taper(0, 0), t)] :
                    t \in {Taper(0, 0), Taper(45, R(5))}}
    IN {Json(d) : d \in Full}
       \cup {Json(Without(d, <<"det_name">>)) : d \in Some}
       \cup {Json(Without(d, <<"geometry">>)) : d \in Some}
       \cup {Json(Without(d, <<"geometry">> \o AccessOrder[m])) :
                d \in Some, m \in 1..Len(AccessOrder)}
       \cup {[state |-> "garbage", data |-> <<>>],
             [state |-> "missing", data |-> <<>>]}

\* The shape resources the configuration rows of the model name.
FileSystem(filename) ==
    CASE filename = <<"a.json">> ->
            Json([det_name |-> <<"V01">>,
                  geometry |-> Geometry(Taper(45, R(5)), Taper(0, 0), Taper(0, 0))])
      [] filename = <<"b.json">> ->
            Json([det_name |-> <<"V02">>,
                  geometry |-> Geometry(Taper(0, 0), Taper(30, R(6)), Taper(45, R(5)))])
      [] filename = <<"nogeom.json">> -> Json([det_name |-> <<"V03">>])
      [] filename = <<"bad.json">> -> [state |-> "garbage", data |-> <<>>]
      [] OTHER -> [state |-> "missing", data |-> <<>>]

\* A configuration row as csv.DictReader yields it: column name -> cell text.
Row(t, s, l, f) == [tower |-> t, string |-> s, layer |-> l, filename |-> f]

\* What the reader yields in place of a row it cannot parse: it raises csv.Error.
CsvErrorRow == [csv_error |-> "line contains NUL"]

\* The rows the reader of the model may yield: slots of the layout with
\* shapes that decode and shapes that do not, slots absent from the layout,
\* a non-integer index and a missing column.
Rows ==
    { Row(str(0), str(0), str(0), <<"a.json">>),
      Row(str(3), str(13), str(7), <<"b.json">>),
      Row(str(1), str(1), str(1), <<"a.json">>),
      Row(str(0), str(0), str(0), <<"bad.json">>),
      Row(str(5), str(0), str(0), <<"a.json">>),
      Row(str(5), str(0), str(0), <<"bad.json">>),
      Row(str(0), str(20), str(0), <<"b.json">>),
      Row(str(1), str(2), str(9), <<"bad.json">>),
      Row(str(2), str(1), str(1), <<"nogeom.json">>),
      Row(<<"x">>, str(0), str(0), <<"a.json">>),
      [tower |-> str(1), string |-> str(1), filename |-> <<"a.json">>] }

\* The number of rows the reader of the model yields at most.
MaxRows == 2

\* int(cell) succeeds
IsInt(cell) == /\ Len(cell) > 0
               /\ \A m \in 1..Len(cell) : \E q \in 1..10 : Digits[q] = cell[m]

\* int(cell) of a cell of decimal digits
RECURSIVE int(_)
int(cell) ==
    IF Len(cell) = 0 THEN 0
    ELSE 10 * int(SubSeq(cell, 1, Len(cell) - 1))
         + (CHOOSE q \in 0..9 : Digits[q + 1] = cell[Len(cell)])

---------------------------------------------------------------------------
(* L1000Baseline._place_crystals: helpers                                  *)

\* The name of the sub-enclosure of a tower: "ULArLV" + label.
HostName(label) == <<"ULArLV">> \o label

\* The instance name of a placeholder crystal: "GePV" + str(k[3]).
PlaceholderName_Layer(k) == <<"GePV">> \o str(k[3])
PlaceholderName(k) == <<"GePV">> \o str(k[4])

\* The instance name of a configured crystal: "GePV-" + tag.
ConfiguredName(tag) == <<"GePV-">> \o tag

\* A PhysicalVolume call: rotation, position, logical volume, name, mother,
\* and the keyword arguments passed (none: the copy number of the volume is
\* left to the toolkit's default).
PhysicalVolume(rot, pos, lv, name, mother) ==
    [rot |-> rot, pos |-> pos, lv |-> lv, name |-> name, mother |-> mother,
     kwargs |-> <<>>]

\* The logical volume of the ideal crystal template.
IGeLV == [isNone |-> FALSE, name |-> <<"IGeLV">>, solid |-> <<"IGe">>,
          pR |-> <<>>, pZ |-> <<>>]

\* "for k, v in coord_map.items(): placement_map[(k[0], k[1], k[2])] = v":
\* the keys in the order of their first occurrence, each with the value of
\* its last occurrence.
PlacementMap_StringLayer(coord_map) ==
    LET key(m) == <<0, coord_map[m][1][2], coord_map[m][1][3]>>
        first == SelectSeq([m \in 1..Len(coord_map) |-> m],
                           LAMBDA m : \A q \in 1..(m - 1) : key(q) # key(m))
        last(m) == CHOOSE q \in m..Len(coord_map) :
                      /\ key(q) = key(m)
                      /\ \A u \in (q + 1)..Len(coord_map) : key(u) # key(m)
    IN [m \in 1..Len(first) |-> <<key(first[m]), coord_map[last(first[m])][2]>>]
PlacementMap(coord_map) ==
    LET key(m) == <<coord_map[m][1][1], coord_map[m][1][2], coord_map[m][1][3]>>
        first == SelectSeq([m \in 1..Len(coord_map) |-> m],
                           LAMBDA m : \A q \in 1..(m - 1) : key(q) # key(m))
        last(m) == CHOOSE q \in m..Len(coord_map) :
                      /\ key(q) = key(m)
                      /\ \A u \in (q + 1)..Len(coord_map) : key(u) # key(m)
    IN [m \in 1..Len(first) |-> <<key(first[m]), coord_map[last(first[m])][2]>>]

\* The exception of "(int(row["tower"]), int(row["string"]), int(row["layer"]))",
\* evaluated left to right, or NoException.
IndexError(row) ==
    LET cols == <<"tower", "string", "layer">>
        bad(c) == c \notin DOMAIN row \/ ~IsInt(row[c])
    IN IF \A m \in 1..3 : ~bad(cols[m]) THEN NoException
       ELSE LET m == CHOOSE m \in 1..3 :
                        bad(cols[m]) /\ \A q \in 1..(m - 1) : ~bad(cols[q])
            IN IF cols[m] \notin DOMAIN row
               THEN Raise("KeyError", <<cols[m]>>, "row")
               ELSE Raise("ValueError", row[cols[m]], "row")

\* The exception of one iteration of "now place the crystals individually",
\* or NoException.
PlaceError(pos, lv, lvdict, pmap) ==
    IF HostName(str(pos[1])) \notin lvdict
    THEN Raise("KeyError", HostName(str(pos[1])), "logicalVolumeDict")
    ELSE IF ~lv.isNone /\ ~DictHas(pmap, pos)
    THEN Raise("KeyError",
               <<"(">> \o str(pos[1]) \o <<",">> \o str(pos[2]) \o <<",">>
                      \o str(pos[3]) \o <<")">>,
               "placement_map")
    ELSE NoException

---------------------------------------------------------------------------
(* Specifications                                                          *)

Init ==
    /\ pc = "outer"
    /\ filled \in BOOLEAN
    /\ det_config_file \in {"", "config.csv"}
    /\ j = 0 /\ i = 0
    /\ zmin = 0
    /\ local_store = <<>>
    /\ maxid = 0 /\ zshift = 0
    /\ tower = 0
    /\ locStore = <<>>
    /\ logicalVolumeDict = {<<"LArLV">>}
    /\ towerPVs = <<>>
    /\ placement_map = <<>>
    /\ rows = <<>>
    /\ line_num = 0
    /\ placementlist = <<>> /\ namelist = <<>> /\ lv_list = <<>>
    /\ n = 0
    /\ placements = <<>>
    /\ warnings = <<>>
    /\ exception = NoException
    /\ resource = [state |-> "missing", data |-> <<>>]
    /\ det = NoDet

\* One iteration of the inner loop of the outer ring: slot (j, i).
OuterSlot ==
    /\ pc = "outer"
    /\ LET xpos == Mul(10 * string_rad, cos(j * angle))
           ypos == Mul(10 * string_rad, sin(j * angle))
           zpos == Zpos(i)
       IN /\ zmin' = ZminUpdate(zpos, zmin)
          /\ local_store' = DictSet(local_store, LocalKey(j, i), <<xpos, ypos, zpos>>)
    /\ IF i + 1 < n_of_layers
       THEN /\ i' = i + 1 /\ j' = j /\ pc' = pc
       ELSE /\ i' = 0
            /\ IF j + 1 < n_of_strings
               THEN j' = j + 1 /\ pc' = pc
               ELSE j' = 1 /\ pc' = "inner"
    /\ UNCHANGED <<filled, det_config_file, maxid, zshift, tower, locStore,
                   logicalVolumeDict, towerPVs, placement_map, rows, line_num,
                   placementlist, namelist, lv_list, n, placements, warnings,
                   exception, resource, det>>

\* One iteration of the inner loop of strings 13 and 14: slot (inner_strings[j], i).
InnerSlot ==
    /\ pc = "inner"
    /\ LET s == inner_strings[j]
           xpos == 0
           ypos == Mul(10 * inner_ring, cos((s - 12) * pi))
           zpos == Zpos(i)
       IN local_store' = DictSet(local_store, LocalKey(s, i), <<xpos, ypos, zpos>>)
    /\ IF i + 1 < n_of_layers
       THEN /\ i' = i + 1 /\ j' = j /\ pc' = pc
       ELSE /\ i' = 0
            /\ IF j < Len(inner_strings)
               THEN j' = j + 1 /\ pc' = pc
               ELSE j' = j /\ pc' = "towers_init"
    /\ UNCHANGED <<filled, det_config_file, zmin, maxid, zshift, tower, locStore,
                   logicalVolumeDict, towerPVs, placement_map, rows, line_num,
                   placementlist, namelist, lv_list, n, placements, warnings,
                   exception, resource, det>>

\* "maxid = len(local_store)", "zshift = ...", before the tower loop.
BeginTowers ==
    /\ pc = "towers_init"
    /\ maxid' = Len(local_store)
    /\ zshift' = Zshift(zmin)
    /\ tower' = 0
    /\ pc' = "towers"
    /\ UNCHANGED <<filled, det_config_file, j, i, zmin, local_store, locStore,
                   logicalVolumeDict, towerPVs, placement_map, rows, line_num,
                   placementlist, namelist, lv_list, n, placements, warnings,
                   exception, resource, det>>

\* The head of one iteration of the tower loop: the tower's volumes and
\* their placement at vec in the cryostat.
PlaceTower ==
    /\ pc = "towers"
    /\ LET vec == trsf[tower + 1]
           label == str(tower)
       IN /\ logicalVolumeDict' = logicalVolumeDict
                 \cup {<<"CopperLV">> \o label, <<"ULArLV">> \o label}
          /\ towerPVs' = towerPVs \o
                 << [rot |-> <<0, 0, 0>>, pos |-> vec, lv |-> <<"CopperLV">> \o label,
                     name |-> <<"CopperPV">> \o label, mother |-> <<"LArLV">>],
                    [rot |-> <<0, 0, 0>>, pos |-> vec, lv |-> <<"ULArLV">> \o label,
                     name |-> <<"ULArPV">> \o label, mother |-> <<"LArLV">>] >>
    /\ n' = 1
    /\ pc' = "entries"
    /\ UNCHANGED <<filled, det_config_file, j, i, zmin, local_store, maxid, zshift,
                   tower, locStore, placement_map, rows, line_num, placementlist,
                   namelist, lv_list, placements, warnings, exception, resource, det>>

\* One iteration of "for k, v in local_store.items()": entry n of local_store
\* is stored for the current tower.
StoreEntry ==
    /\ pc = "entries"
    /\ LET k == local_store[n][1]
           v == local_store[n][2]
           vec == trsf[tower + 1]
       IN locStore' = DictSet(locStore, TowerKey(tower, k, maxid),
                              TowerVal(v, vec, zshift))
    /\ IF n < Len(local_store)
       THEN n' = n + 1 /\ tower' = tower /\ pc' = pc
       ELSE /\ n' = 0
            /\ IF tower + 1 < Len(trsf)
               THEN tower' = tower + 1 /\ pc' = "towers"
               ELSE tower' = tower /\ pc' = "built"
    /\ UNCHANGED <<filled, det_config_file, j, i, zmin, local_store, maxid, zshift,
                   logicalVolumeDict, towerPVs, placement_map, rows, line_num,
                   placementlist, namelist, lv_list, placements, warnings,
                   exception, resource, det>>

\* _build_world after LTank(): the tank is placed, and "if filled:" decides
\* whether _place_crystals is called.
BuildWorld_Unfilled ==
    /\ pc = "built"
    /\ pc' = "place"
    /\ UNCHANGED <<filled, det_config_file, j, i, zmin, local_store, maxid,
                   zshift, tower, locStore, logicalVolumeDict, towerPVs,
                   placement_map, rows, line_num, placementlist, namelist,
                   lv_list, n, placements, warnings, exception, resource, det>>
BuildWorld ==
    /\ pc = "built"
    /\ pc' = IF filled THEN "place" ELSE "done"
    /\ UNCHANGED <<filled, det_config_file, j, i, zmin, local_store, maxid,
                   zshift, tower, locStore, logicalVolumeDict, towerPVs,
                   placement_map, rows, line_num, placementlist, namelist,
                   lv_list, n, placements, warnings, exception, resource, det>>

\* _place_crystals up to its loops: the ideal template in placeholder mode;
\* placement_map, the three lists and the opened file in configured mode.
BeginPlace_InPlace ==
    /\ pc = "place"
    /\ IF det_config_file = ""
       THEN /\ logicalVolumeDict' = logicalVolumeDict \cup {IGeLV.name}
            /\ n' = 1
            /\ pc' = IF Len(locStore) > 0 THEN "placeholder" ELSE "done"
            /\ UNCHANGED <<placement_map, locStore>>
       ELSE /\ placement_map' = PlacementMap(locStore)
            /\ locStore' = PlacementMap(locStore)
            /\ n' = 0
            /\ pc' = "read"
            /\ UNCHANGED logicalVolumeDict
    /\ placementlist' = <<>> /\ namelist' = <<>> /\ lv_list' = <<>>
    /\ UNCHANGED <<filled, det_config_file, j, i, zmin, local_store, maxid,
                   zshift, tower, towerPVs, rows, line_num,
                   placements, warnings, exception, resource, det>>
BeginPlace ==
    /\ pc = "place"
    /\ IF det_config_file = ""
       THEN /\ logicalVolumeDict' = logicalVolumeDict \cup {IGeLV.name}
            /\ n' = 1
            /\ pc' = IF Len(locStore) > 0 THEN "placeholder" ELSE "done"
            /\ UNCHANGED placement_map
       ELSE /\ placement_map' = PlacementMap(locStore)
            /\ n' = 0
            /\ pc' = "read"
            /\ UNCHANGED logicalVolumeDict
    /\ placementlist' = <<>> /\ namelist' = <<>> /\ lv_list' = <<>>
    /\ UNCHANGED <<filled, det_config_file, j, i, zmin, local_store, maxid,
                   zshift, tower, locStore, towerPVs, rows, line_num,
                   placements, warnings, exception, resource, det>>

\* One iteration of "for k, pos in coord_map.items()" (placeholder mode).
PlaceholderStep ==
    /\ pc = "placeholder"
    /\ LET k == locStore[n][1]
           pos == locStore[n][2]
           label == str(k[1])
       IN IF HostName(label) \in logicalVolumeDict
          THEN /\ placements' = Append(placements,
                      PhysicalVolume(<<0, 0, 0>>, pos, IGeLV, PlaceholderName(k),
                                     HostName(label)))
               /\ IF n < Len(locStore)
                  THEN n' = n + 1 /\ pc' = pc
                  ELSE n' = n /\ pc' = "done"
               /\ UNCHANGED exception
          ELSE /\ exception' = Raise("KeyError", HostName(label), "logicalVolumeDict")
               /\ pc' = "raised"
               /\ UNCHANGED <<placements, n>>
    /\ UNCHANGED <<filled, det_config_file, j, i, zmin, local_store, maxid,
                   zshift, tower, locStore, logicalVolumeDict, towerPVs,
                   placement_map, rows, line_num, placementlist, namelist,
                   lv_list, warnings, resource, det>>

\* The line number of the reader after one more line of the file (the header
\* is read with the first row).
NextLine(ln) == IF ln = 0 THEN 2 ELSE ln + 1

\* One iteration of "for row in reader": the reader yields a row.
ReadRow ==
    /\ pc = "read"
    /\ Len(rows) < MaxRows
    /\ \E row \in Rows :
        /\ rows' = Append(rows, row)
        /\ line_num' = NextLine(line_num)
        /\ IF IndexError(row).type # "none"
           THEN /\ exception' = IndexError(row)
                /\ pc' = "raised"
                /\ UNCHANGED <<placementlist, namelist, lv_list, det, warnings>>
           ELSE /\ placementlist' = Append(placementlist,
                      <<int(row["tower"]), int(row["string"]), int(row["layer"])>>)
                /\ IF "filename" \notin DOMAIN row
                   THEN /\ exception' = Raise("KeyError", <<"filename">>, "row")
                        /\ pc' = "raised"
                        /\ UNCHANGED <<namelist, lv_list, det, warnings>>
                   ELSE LET d == DetICPC(FileSystem(row["filename"]))
                        IN /\ det' = d
                           /\ warnings' = warnings \o
                                  [m \in 1..Len(d.warnings) |->
                                      [logger |-> "icpc", file |-> row["filename"],
                                       line |-> 0, msg |-> d.warnings[m]]]
                           /\ IF d.raised.type # "none"
                              THEN /\ exception' = d.raised
                                   /\ pc' = "raised"
                                   /\ UNCHANGED <<namelist, lv_list>>
                              ELSE /\ namelist' = Append(namelist, d.detname)
                                   /\ lv_list' = Append(lv_list, d.crystalLV)
                                   /\ pc' = pc
                                   /\ UNCHANGED exception
    /\ UNCHANGED <<filled, det_config_file, j, i, zmin, local_store, maxid,
                   zshift, tower, locStore, logicalVolumeDict, towerPVs,
                   placement_map, n, placements, resource>>

\* "except csv.Error": the reader raises instead of yielding a row; the
\* warning names the file and the line, and _place_crystals returns.
ReadCsvError_ThenPlace ==
    /\ pc = "read"
    /\ Len(rows) < MaxRows
    /\ rows' = Append(rows, CsvErrorRow)
    /\ line_num' = NextLine(line_num)
    /\ warnings' = Append(warnings,
           [logger |-> "L1000CompleteSetup", file |-> <<det_config_file>>,
            line |-> NextLine(line_num), msg |-> CsvErrorRow.csv_error])
    /\ n' = 1
    /\ pc' = IF Len(placementlist) > 0 THEN "placing" ELSE "done"
    /\ UNCHANGED <<filled, det_config_file, j, i, zmin, local_store, maxid,
                   zshift, tower, locStore, logicalVolumeDict, towerPVs,
                   placement_map, placementlist, namelist, lv_list,
                   placements, exception, resource, det>>
ReadCsvError ==
    /\ pc = "read"
    /\ Len(rows) < MaxRows
    /\ rows' = Append(rows, CsvErrorRow)
    /\ line_num' = NextLine(line_num)
    /\ warnings' = Append(warnings,
           [logger |-> "L1000CompleteSetup", file |-> <<det_config_file>>,
            line |-> NextLine(line_num), msg |-> CsvErrorRow.csv_error])
    /\ pc' = "done"
    /\ UNCHANGED <<filled, det_config_file, j, i, zmin, local_store, maxid,
                   zshift, tower, locStore, logicalVolumeDict, towerPVs,
                   placement_map, placementlist, namelist, lv_list, n,
                   placements, exception, resource, det>>

\* The reader is exhausted: the read loop and the file are left.
ReadEnd ==
    /\ pc = "read"
    /\ n' = 1
    /\ pc' = IF Len(placementlist) > 0 THEN "placing" ELSE "done"
    /\ UNCHANGED <<filled, det_config_file, j, i, zmin, local_store, maxid,
                   zshift, tower, locStore, logicalVolumeDict, towerPVs,
                   placement_map, rows, line_num, placementlist, namelist,
                   lv_list, placements, warnings, exception, resource, det>>

\* One iteration of "for pos, tag, lv in zip(placementlist, namelist, lv_list)".
PlaceRow ==
    /\ pc = "placing"
    /\ LET pos == placementlist[n]
           tag == namelist[n]
           lv == lv_list[n]
           err == PlaceError(pos, lv, logicalVolumeDict, placement_map)
       IN IF err.type # "none"
          THEN /\ exception' = err
               /\ pc' = "raised"
               /\ UNCHANGED <<placements, n>>
          ELSE /\ placements' =
                      IF lv.isNone \/ ~DictHas(placement_map, pos) THEN placements
                      ELSE Append(placements,
                               PhysicalVolume(<<0, 0, 0>>, DictGet(placement_map, pos),
                                              lv, ConfiguredName(tag),
                                              HostName(str(pos[1]))))
               /\ IF n < Len(placementlist)
                  THEN n' = n + 1 /\ pc' = pc
                  ELSE n' = n /\ pc' = "done"
               /\ UNCHANGED exception
    /\ UNCHANGED <<filled, det_config_file, j, i, zmin, local_store, maxid,
                   zshift, tower, locStore, logicalVolumeDict, towerPVs,
                   placement_map, rows, line_num, placementlist, namelist,
                   lv_list, warnings, resource, det>>

Next ==
    \/ OuterSlot
    \/ InnerSlot
    \/ BeginTowers
    \/ PlaceTower
    \/ StoreEntry
    \/ BuildWorld
    \/ BeginPlace
    \/ PlaceholderStep
    \/ ReadRow
    \/ ReadCsvError
    \/ ReadEnd
    \/ PlaceRow

Spec == Init /\ [][Next]_vars

---------------------------------------------------------------------------
(* A stand-alone DetICPC, as scripts/testicpc.py constructs one            *)

InitICPC ==
    /\ pc = "icpc"
    /\ resource \in Resources
    /\ filled = FALSE
    /\ det_config_file = ""
    /\ j = 0 /\ i = 0
    /\ zmin = 0
    /\ local_store = <<>>
    /\ maxid = 0 /\ zshift = 0
    /\ tower = 0
    /\ locStore = <<>>
    /\ logicalVolumeDict = {}
    /\ towerPVs = <<>>
    /\ placement_map = <<>>
    /\ rows = <<>>
    /\ line_num = 0
    /\ placementlist = <<>> /\ namelist = <<>> /\ lv_list = <<>>
    /\ n = 0
    /\ placements = <<>>
    /\ warnings = <<>>
    /\ exception = NoException
    /\ det = NoDet

\* det = icpc.DetICPC(jsonfile, reg, materials)
Construct ==
    /\ pc = "icpc"
    /\ LET d == DetICPC(resource)
       IN /\ det' = d
          /\ warnings' = warnings \o
                 [m \in 1..Len(d.warnings) |->
                     [logger |-> "icpc", file |-> <<"jsonfile">>, line |-> 0,
                      msg |-> d.warnings[m]]]
          /\ exception' = d.raised
          /\ logicalVolumeDict' =
                 IF d.crystalLV.isNone THEN logicalVolumeDict
                 ELSE logicalVolumeDict \cup {d.crystalLV.name}
          /\ pc' = IF d.raised.type # "none" THEN "raised" ELSE "icpc_done"
    /\ UNCHANGED <<filled, det_config_file, j, i, zmin, local_store, maxid,
                   zshift, tower, locStore, towerPVs, placement_map, rows,
                   line_num, placementlist, namelist, lv_list, n, placements,
                   resource>>

NextICPC == Construct

SpecICPC == InitICPC /\ [][NextICPC]_vars

---------------------------------------------------------------------------
(* Properties                                                              *)

nTowers == Len(trsf)
stringsPerTower == n_of_strings + Len(inner_strings)
layersPerTower == n_of_layers

\* LTank() has returned: the composite map is complete.
LayoutBuilt == pc \in {"built", "place", "placeholder", "read", "placing",
                       "done", "raised"}

\* The entry of local_store that entry m of locStore was made from.
LocalOf(m) == local_store[((m - 1) % maxid) + 1]

\* The smallest z of the single-tower layout.
MinLocalZ == CHOOSE z \in {local_store[m][2][3] : m \in 1..Len(local_store)} :
                \A m \in 1..Len(local_store) : z <= local_store[m][2][3]

\* C1: after LTank construction the composite map has exactly
\* nTowers * stringsPerTower * layersPerTower = 448 entries, and the
\* copyNumbers of its keys are pairwise distinct integers in [0, 448).
C1_CompositeSize ==
    LayoutBuilt =>
        /\ nTowers * stringsPerTower * layersPerTower = 448
        /\ Len(locStore) = nTowers * stringsPerTower * layersPerTower
        /\ Cardinality(DictKeys(locStore)) = Len(locStore)
        /\ \A m \in 1..Len(locStore) : locStore[m][1][4] \in 0..447
        /\ Cardinality({locStore[m][1][4] : m \in 1..Len(locStore)}) = Len(locStore)

C1_Witness ==
    /\ pc = "built"
    /\ Len(locStore) = 448
    /\ \E m \in 1..Len(locStore) : locStore[m][1][4] = 447

\* C2: every key (tower, string, layer, copyNumber) of the composite map has
\* copyNumber = tower * (stringsPerTower * layersPerTower) + localCopy with
\* localCopy = string * layersPerTower + layer, for outer and inner strings.
C2_CopyNumberEncoding ==
    \A m \in 1..Len(locStore) :
        LET k == locStore[m][1]
        IN /\ k[1] \in 0..(nTowers - 1)
           /\ k[2] \in 0..(stringsPerTower - 1)
           /\ k[3] \in 0..(layersPerTower - 1)
           /\ k[4] = k[1] * (stringsPerTower * layersPerTower)
                     + (k[2] * layersPerTower + k[3])

C2_Witness ==
    /\ LayoutBuilt
    /\ \E m \in 1..Len(locStore) : locStore[m][1] = <<3, 13, 7, 447>>
    /\ \E m \in 1..Len(locStore) : locStore[m][1] = <<1, 0, 0, 112>>

\* C3 as claimed: in the composite map the stored x and y of the same
\* (string, layer) in two towers differ by exactly the difference of the two
\* tower centres.
C3_TranslatedByTowerCentre ==
    LayoutBuilt =>
        \A m \in 1..Len(locStore) : \A q \in 1..Len(locStore) :
            (/\ locStore[m][1][2] = locStore[q][1][2]
             /\ locStore[m][1][3] = locStore[q][1][3])
            => /\ locStore[m][2][1] - locStore[q][2][1]
                    = trsf[locStore[m][1][1] + 1][1] - trsf[locStore[q][1][1] + 1][1]
               /\ locStore[m][2][2] - locStore[q][2][2]
                    = trsf[locStore[m][1][1] + 1][2] - trsf[locStore[q][1][1] + 1][2]

\* C3 as amended: the coordinate stored for slot (tower, string, layer) is
\* the tower-local (x, y) of (string, layer) unchanged, with the local z
\* lowered by zshift: it is relative to the tower's sub-enclosure, the same
\* in every tower.  The tower's centre offset is the position at which that
\* sub-enclosure ("ULArPV" + tower) is placed in the cryostat, with a zero
\* rotation.
C3_StoredRelativeToTower ==
    LayoutBuilt =>
        /\ \A m \in 1..Len(locStore) :
              LET k == locStore[m][1]
                  v == locStore[m][2]
                  l == LocalOf(m)
              IN /\ k[1] = (m - 1) \div maxid
                 /\ k[2] = l[1][1] /\ k[3] = l[1][2]
                 /\ v[1] = l[2][1] /\ v[2] = l[2][2]
                 /\ v[3] = l[2][3] - zshift
        /\ Len(towerPVs) = 2 * nTowers
        /\ \A t \in 0..(nTowers - 1) :
              /\ towerPVs[2 * t + 2].name = <<"ULArPV">> \o str(t)
              /\ towerPVs[2 * t + 2].lv = <<"ULArLV">> \o str(t)
              /\ towerPVs[2 * t + 2].pos = trsf[t + 1]
              /\ towerPVs[2 * t + 2].rot = <<0, 0, 0>>

C3_Witness ==
    /\ pc = "built"
    /\ \E m \in 1..Len(locStore) : \E q \in 1..Len(locStore) :
          /\ locStore[m][1][1] = 0 /\ locStore[q][1][1] = 1
          /\ locStore[m][1][2] = 1 /\ locStore[q][1][2] = 1
          /\ locStore[m][1][3] = 0 /\ locStore[q][1][3] = 0
          /\ trsf[1] # trsf[2]
          /\ locStore[m][2] = locStore[q][2]
          /\ locStore[m][2][1] # 0 /\ locStore[m][2][2] # 0

\* C4: zshift = halfEnclosureHeight + minLocalZ - margin, with the half
\* height of the 4000 mm copper insert and a 100 mm margin, is subtracted
\* from the z of every entry of every tower, so the minimum z of the
\* composite map is -halfEnclosureHeight + margin.
C4_Rebase ==
    LayoutBuilt =>
        /\ 10 * cu_height = R(4000)
        /\ zshift = (10 * cu_height) \div 2 + MinLocalZ - R(100)
        /\ \A m \in 1..Len(locStore) : locStore[m][2][3] = LocalOf(m)[2][3] - zshift
        /\ \A m \in 1..Len(locStore) :
              locStore[m][2][3] >= -((10 * cu_height) \div 2) + R(100)
        /\ \A t \in 0..(nTowers - 1) : \E m \in 1..Len(locStore) :
              /\ locStore[m][1][1] = t
              /\ locStore[m][2][3] = -((10 * cu_height) \div 2) + R(100)

C4_Witness ==
    /\ pc = "built"
    /\ zmin = -R(560)
    /\ zshift = R(1340)
    /\ \E m \in 1..Len(locStore) : locStore[m][2][3] = -R(1900)

\* The placement pass runs in placeholder mode.
PlaceholderMode == filled /\ det_config_file = ""

\* The placement pass runs in configured mode.
ConfiguredMode == filled /\ det_config_file # ""

WellFormed(row) ==
    /\ DOMAIN row = {"tower", "string", "layer", "filename"}
    /\ IsInt(row["tower"]) /\ IsInt(row["string"]) /\ IsInt(row["layer"])

\* The (tower, string, layer) a well-formed row names.
SlotOf(row) == <<int(row["tower"]), int(row["string"]), int(row["layer"])>>

\* The slot is one of the layout.
InLayout(slot) ==
    \E m \in 1..Len(locStore) :
        <<locStore[m][1][1], locStore[m][1][2], locStore[m][1][3]>> = slot

\* The coordinate the composite map holds for a slot of the layout.
CoordinateOf(slot) ==
    locStore[CHOOSE m \in 1..Len(locStore) :
        <<locStore[m][1][1], locStore[m][1][2], locStore[m][1][3]>> = slot][2]

\* The shape resource of a well-formed row decodes to a volume.
Decodes(row) ==
    /\ DetICPC(FileSystem(row["filename"])).raised.type = "none"
    /\ ~DetICPC(FileSystem(row["filename"])).crystalLV.isNone

\* The reader yielded every row read so far, each well formed, and no
\* shape resource made the decoder raise: the read loop is not left early.
ReadUnbroken ==
    \A m \in 1..Len(rows) :
        /\ WellFormed(rows[m])
        /\ DetICPC(FileSystem(rows[m]["filename"])).raised.type = "none"

\* A well-formed row that C6 says is placed.
Placeable(row) == WellFormed(row) /\ InLayout(SlotOf(row)) /\ Decodes(row)

\* The run of _place_crystals has ended, by a return or by an exception.
Ended == pc \in {"done", "raised"}

\* The placements C6 describes for the rows read, in file order.
PlacementsClaimed ==
    LET sel == SelectSeq(rows, Placeable)
    IN [m \in 1..Len(sel) |->
           [name |-> DetICPC(FileSystem(sel[m]["filename"])).detname,
            pos |-> CoordinateOf(SlotOf(sel[m])),
            mother |-> HostName(str(SlotOf(sel[m])[1]))]]

\* The placements emitted: identity name (after the "GePV-" prefix),
\* coordinate and host.
PlacementsEmitted ==
    [m \in 1..Len(placements) |->
        [name |-> Tail(placements[m].name),
         pos |-> placements[m].pos,
         mother |-> placements[m].mother]]

\* C6: in configured mode, for every row whose (tower, string, layer) exists
\* in the layout and whose shape resource decodes, exactly one placement is
\* emitted, carrying the decoded det_name, the coordinate of the composite
\* map for that slot and the host sub-enclosure of that tower, in file
\* order.  (Stated for tables read to their end.)
C6_ConfiguredPlacements ==
    (ConfiguredMode /\ Ended /\ ReadUnbroken) =>
        PlacementsEmitted = PlacementsClaimed

\* C7: in configured mode a row naming a (tower, string, layer) absent from
\* the layout is a silent no-op: no placement is emitted for it, no
\* exception is raised, and the remaining rows are still placed.
C7_AbsentSlotSkipped ==
    (/\ ConfiguredMode /\ Ended /\ ReadUnbroken
     /\ \E m \in 1..Len(rows) : ~InLayout(SlotOf(rows[m])))
    => /\ exception.type = "none"
       /\ pc = "done"
       /\ Len(placements) = Len(SelectSeq(rows, Placeable))

\* A row the reader cannot parse, or that lacks a column, or whose index is
\* no integer.
Malformed(row) == row = CsvErrorRow \/ ~WellFormed(row)

\* The warnings of _place_crystals itself.
ConfigWarnings == SelectSeq(warnings, LAMBDA w : w.logger = "L1000CompleteSetup")

\* C8: in configured mode a malformed row (csv parse error, missing column,
\* non-integer index) aborts the reading of the remaining rows, is reported
\* once as a non-fatal warning naming the failing line, and no placement is
\* emitted for a row at or after it.
C8_MalformedRowWarned ==
    \A m \in 1..Len(rows) :
        Malformed(rows[m]) =>
            /\ Len(rows) = m
            /\ pc = "done"
            /\ exception.type = "none"
            /\ Len(ConfigWarnings) = 1
            /\ ConfigWarnings[1].line = m + 1
            /\ Len(placements) <= m - 1

\* A stand-alone DetICPC has been constructed, or its constructor raised.
Constructed == pc \in {"icpc_done", "raised"}

\* The resource does not open, does not parse, or lacks det_name.
Unreadable(res) == res.state # "json" \/ "det_name" \notin DOMAIN res.data

\* The resource is read, and lacks geometry or a nested geometry field.
LacksGeometryField(res) ==
    /\ ~Unreadable(res)
    /\ \/ "geometry" \notin DOMAIN res.data
       \/ \E m \in 1..Len(AccessOrder) : ~HasPath(res.data.geometry, AccessOrder[m])

\* The names of the fields the resource lacks.
MissingFields(res) ==
    IF "geometry" \notin DOMAIN res.data THEN {"geometry"}
    ELSE {AccessOrder[m][Len(AccessOrder[m])] :
             m \in {q \in 1..Len(AccessOrder) :
                       ~HasPath(res.data.geometry, AccessOrder[q])}}

\* C9 as claimed: when a shape resource fails to parse or lacks a required
\* field (det_name, geometry or a nested geometry field), decoding fails
\* with an error surfaced to the caller that identifies the missing field,
\* and no profile is returned or turned into a volume.
C9_ErrorSurfaced ==
    (Constructed /\ (Unreadable(resource) \/ LacksGeometryField(resource))) =>
        /\ pc = "raised"
        /\ exception.type # "none"
        /\ det.crystalLV.isNone

\* C9 as amended: a shape resource that does not open, does not parse or
\* lacks det_name raises nothing: one warning that names no field is
\* logged and the unit is constructed with no name and no volume.  One that
\* lacks geometry or a nested geometry field makes the constructor raise a
\* KeyError whose argument is the name of a field the resource lacks.  In
\* both cases no profile, not even a partial one, is turned into a volume.
C9_DecodeFailure ==
    Constructed =>
        /\ Unreadable(resource) =>
              /\ pc = "icpc_done"
              /\ exception.type = "none"
              /\ Len(warnings) = 1
              /\ warnings[1].msg = "Error parsing JSON file."
              /\ det.detname = <<>>
              /\ det.crystalLV = NoneLV
              /\ logicalVolumeDict = {}
        /\ LacksGeometryField(resource) =>
              /\ pc = "raised"
              /\ exception.type = "KeyError"
              /\ Len(exception.arg) = 1
              /\ exception.arg[1] \in MissingFields(resource)
              /\ warnings = <<>>
              /\ det.crystalLV = NoneLV
              /\ det.crystalLV.pR = <<>> /\ det.crystalLV.pZ = <<>>
              /\ logicalVolumeDict = {}
        /\ (~Unreadable(resource) /\ ~LacksGeometryField(resource)) =>
              /\ pc = "icpc_done"
              /\ ~det.crystalLV.isNone

C9_Witness ==
    /\ pc = "raised"
    /\ resource.state = "json"
    /\ HasPath(resource.data, <<"geometry", "well", "radius_in_mm">>)
    /\ ~HasPath(resource.data, <<"geometry", "groove", "depth_in_mm">>)
    /\ exception = Raise("KeyError", <<"depth_in_mm">>, "_decode_polycone")
    /\ det.crystalLV.isNone

\* The number of the three optional tapers a geometry has (height > 0).
TapersPresent(g) ==
      (IF g.taper.top.inner.height_in_mm > 0 THEN 1 ELSE 0)
    + (IF g.taper.top.outer.height_in_mm > 0 THEN 1 ELSE 0)
    + (IF g.taper.bottom.outer.height_in_mm > 0 THEN 1 ELSE 0)

\* A profile was decoded from a valid ShapeSpec.
Decoded == pc = "icpc_done" /\ ~det.crystalLV.isNone

\* C10 as claimed: for every valid ShapeSpec the decoded profile has the
\* same number of points, whichever optional tapers are present: the number
\* it has with no taper.
C10_FixedPointCount ==
    Decoded =>
        /\ Len(det.crystalLV.pR) = Len(det.crystalLV.pZ)
        /\ Len(det.crystalLV.pR)
              = Len(DecodePolycone(Geometry(Taper(0, 0), Taper(0, 0), Taper(0, 0))).rlist)

\* C10 as amended: rlist and zlist have the same length, and the profile has
\* 10 points plus one for every optional taper that is present (height > 0):
\* between 10 and 13 points.
C10_PointCountByTapers ==
    Decoded =>
        /\ Len(det.crystalLV.pR) = Len(det.crystalLV.pZ)
        /\ Len(det.crystalLV.pR) = 10 + TapersPresent(resource.data.geometry)
        /\ Len(det.crystalLV.pR) \in 10..13

C10_Witness ==
    /\ Decoded
    /\ TapersPresent(resource.data.geometry) = 3
    /\ Len(det.crystalLV.pR) = 13
    /\ Len(det.crystalLV.pZ) = 13

---------------------------------------------------------------------------
(* The decoded profile                                                     *)

\* The ShapeSpec invariant: height > 0, outerRadius > 0, no taper height
\* negative.
ValidShapeSpec(g) ==
    /\ g.height_in_mm > 0
    /\ g.radius_in_mm > 0
    /\ g.taper.top.inner.height_in_mm >= 0
    /\ g.taper.top.outer.height_in_mm >= 0
    /\ g.taper.bottom.outer.height_in_mm >= 0

\* The points of the profile of the constructed DetICPC.
ProfilePoints == 1..Len(det.crystalLV.pR)

\* C11: for every ShapeSpec with height > 0, outerRadius > 0 and no negative
\* taper height, every point of the decoded profile has radius >= 0 and
\* height within [0, ShapeSpec.height].
C11_ProfileInRange ==
    (Decoded /\ ValidShapeSpec(resource.data.geometry)) =>
        \A m \in ProfilePoints :
            /\ det.crystalLV.pR[m] >= 0
            /\ det.crystalLV.pZ[m] >= 0
            /\ det.crystalLV.pZ[m] <= resource.data.geometry.height_in_mm

\* The geometry g with every taper angle set to 0.
AnglesErased(g) ==
    [g EXCEPT !.taper.top.inner.angle_in_deg = 0,
              !.taper.top.outer.angle_in_deg = 0,
              !.taper.bottom.outer.angle_in_deg = 0]

\* C12: when the top inner, top outer and bottom outer taper heights are all
\* 0 the profile is a plain cylinder silhouette: the top face is flat, at one
\* height, from well.radius to outerRadius; the outer wall is the single
\* vertical edge between (outerRadius, 0) and (outerRadius, height), the only
\* two points at outerRadius; and no vertex depends on a taper angle.
C12_PlainCylinder ==
    (Decoded /\ TapersPresent(resource.data.geometry) = 0) =>
        LET g == resource.data.geometry
            pR == det.crystalLV.pR
            pZ == det.crystalLV.pZ
        IN /\ Len(pR) = 10 /\ Len(pZ) = 10
           /\ \E top \in {0, g.height_in_mm} :
                 /\ <<pR[2], pZ[2]>> = <<g.well.radius_in_mm, top>>
                 /\ <<pR[3], pZ[3]>> = <<g.radius_in_mm, top>>
                 /\ <<pR[4], pZ[4]>> = <<g.radius_in_mm, g.height_in_mm - top>>
           /\ {m \in 1..10 : pR[m] = g.radius_in_mm} = {3, 4}
           /\ pR = DecodePolycone(AnglesErased(g)).rlist
           /\ pZ = DecodePolycone(AnglesErased(g)).zlist

C12_Witness ==
    /\ Decoded
    /\ TapersPresent(resource.data.geometry) = 0
    /\ resource.data.geometry.taper.top.inner.angle_in_deg = 45
    /\ resource.data.geometry.taper.top.outer.angle_in_deg = 45
    /\ resource.data.geometry.taper.bottom.outer.angle_in_deg = 45
    /\ Len(det.crystalLV.pR) = 10
    /\ det.crystalLV.pR[3] = R(40) /\ det.crystalLV.pR[4] = R(40)

---------------------------------------------------------------------------
(* The single-tower layout                                                 *)

\* Both loops of the single-tower layout have run.
LocalBuilt == pc \notin {"outer", "inner", "icpc", "icpc_done"}

\* The (string, layer) pairs of the keys of local_store.
LocalPairs == {<<local_store[m][1][1], local_store[m][1][2]>> :
                  m \in 1..Len(local_store)}

\* C13: the single-tower layout map has exactly 12 * 8 + 2 * 8 = 112 entries,
\* one for every (string, layer) with string in 0..13 and layer in 0..7, and
\* at no time does a (string, layer) pair occur under two keys.
C13_LocalLayoutSize ==
    /\ Cardinality(LocalPairs) = Len(local_store)
    /\ LocalBuilt =>
          /\ Len(local_store) = 12 * 8 + 2 * 8
          /\ LocalPairs = (0..13) \X (0..7)

C13_Witness ==
    /\ pc = "towers_init"
    /\ Len(local_store) = 112
    /\ <<0, 0>> \in LocalPairs
    /\ <<13, 7>> \in LocalPairs

\* The entries of local_store that belong to the outer ring.
OuterEntries == {m \in 1..Len(local_store) : local_store[m][1][1] < 12}

\* A length of the model in tenths of a millimetre.
Tenths(x) == x \div (Fix \div 10)

\* C14: every outer-ring slot (string 0..11, any layer) lies at the angle
\* string * (360 / 12) degrees on the circle of the string radius: its (x, y)
\* points in that direction and sqrt(x^2 + y^2) is 340 mm within the
\* tolerance of the arithmetic, 0.1 mm.
C14_OuterRingCircle ==
    \A m \in OuterEntries :
        LET a == local_store[m][1][1] * (360 \div 12)
            x == local_store[m][2][1]
            y == local_store[m][2][2]
            mag2 == Tenths(x) * Tenths(x) + Tenths(y) * Tenths(y)
        IN /\ mag2 >= (3400 - 1) * (3400 - 1)
           /\ mag2 <= (3400 + 1) * (3400 + 1)
           /\ x * sin(a) = y * cos(a)
           /\ x * cos(a) + y * sin(a) > 0

C14_Witness ==
    /\ LocalBuilt
    /\ \E m \in OuterEntries :
          /\ local_store[m][1] = <<7, 3, 59>>
          /\ local_store[m][2][1] = -294440
          /\ local_store[m][2][2] = -170000

---------------------------------------------------------------------------
(* The placements handed to the toolkit                                    *)

\* The instance names of the placements made so far.
InstanceNames == {placements[m].name : m \in 1..Len(placements)}

\* C15: every placement handed to the placement call has an instance name
\* different from that of every other placement of the same build, in
\* placeholder mode and in configured mode alike.
C15_UniqueInstanceNames ==
    Cardinality(InstanceNames) = Len(placements)

\* The keyword arguments of placement m, as a set of <<name, value>>.
Keywords(m) == {placements[m].kwargs[q] : q \in 1..Len(placements[m].kwargs)}

\* C16: in placeholder mode every emitted placement carries, as its copy
\* number, the copyNumber of the SlotKey it was generated from, and an
\* identity rotation; in configured mode a placement carries no copy number.
C16_CopyNumberOutput ==
    /\ PlaceholderMode =>
          \A m \in 1..Len(placements) :
              /\ placements[m].rot = <<0, 0, 0>>
              /\ <<"copyNumber", locStore[m][1][4]>> \in Keywords(m)
    /\ ConfiguredMode =>
          \A m \in 1..Len(placements) :
              \A kw \in Keywords(m) : kw[1] # "copyNumber"

---------------------------------------------------------------------------
(* The order of construction                                               *)

\* _place_crystals is running.
InPlacementPass == pc \in {"place", "placeholder", "read", "placing"}

\* The position of a control state in the order of one construction.
Stage(p) ==
    CASE p \in {"outer", "inner", "towers_init", "towers", "entries"} -> 1
      [] p = "built" -> 2
      [] p = "place" -> 3
      [] p \in {"placeholder", "read", "placing"} -> 4
      [] OTHER -> 5

C18_LayoutReadOnly ==
    [][LayoutBuilt => locStore' = locStore]_vars

C18_Witness ==
    /\ ConfiguredMode
    /\ pc = "raised"
    /\ Len(placements) = 1
    /\ Len(locStore) = 448
    /\ locStore[448] = <<<<3, 13, 7, 447>>, <<0, -135000, -1900000>>>>

---------------------------------------------------------------------------
(* Determinism of the layout                                               *)

\* The entry of slot (t, s, l) as the hard-coded parameters alone determine
\* it: strings 0..11 on the 340 mm circle, 30 degrees apart, strings 12 and
\* 13 at y = +135 mm and -135 mm, layers 160 mm apart down to -1900 mm.
EntryOf(t, s, l) ==
    << <<t, s, l, t * 112 + s * 8 + l>>,
       << IF s < 12 THEN Mul(R(340), cos(s * 30)) ELSE 0,
          IF s < 12 THEN Mul(R(340), sin(s * 30))
          ELSE IF s = 12 THEN R(135) ELSE -R(135),
          -R(1900) + (7 - l) * R(160) >> >>

\* The composite map as a set of (key, coordinate) pairs.
CompositeEntries == {locStore[m] : m \in 1..Len(locStore)}

\* C19: layout generation is deterministic: in every build, whatever else
\* the build is given or does, the composite map has the same key set and
\* the same coordinate under every key, as a set of entries (the order of
\* the entries does not enter the comparison).
C19_LayoutDeterministic ==
    LayoutBuilt =>
        /\ Len(locStore) = 448
        /\ CompositeEntries =
              {EntryOf(t, s, l) : t \in 0..3, s \in 0..13, l \in 0..7}

C19_Witness ==
    /\ pc = "built"
    /\ ~filled
    /\ EntryOf(2, 5, 3) \in CompositeEntries
    /\ EntryOf(2, 5, 3) = <<<<2, 5, 3, 267>>, <<-294440, 170000, -1260000>>>>

---------------------------------------------------------------------------
(* The vertex walk                                                         *)

\* Point m of the profile of the constructed DetICPC: <<radius, height>>.
Point(m) == <<det.crystalLV.pR[m], det.crystalLV.pZ[m]>>

\* C20: inner top taper step of the vertex walk: if the top inner taper
\* height is > 0 the decoder emits, right after the start point,
\* (well.radius, height - inner.height) and then
\* (well.radius + inner.height * tan(inner.angle), height); otherwise it
\* emits the single point (well.radius, height).
C20_InnerTopTaperStep ==
    Decoded =>
        LET g == resource.data.geometry
            inner == g.taper.top.inner
        IN IF inner.height_in_mm > 0
           THEN /\ Point(2) = <<g.well.radius_in_mm,
                                g.height_in_mm - inner.height_in_mm>>
                /\ Point(3) = <<g.well.radius_in_mm
                                  + Mul(inner.height_in_mm, tan(inner.angle_in_deg)),
                                g.height_in_mm>>
           ELSE Point(2) = <<g.well.radius_in_mm, g.height_in_mm>>

\* The number of points the inner top taper step emits for geometry g.
InnerTopPoints(g) == IF g.taper.top.inner.height_in_mm > 0 THEN 2 ELSE 1

\* The number of points the outer top taper step emits for geometry g.
OuterTopPoints(g) == IF g.taper.top.outer.height_in_mm > 0 THEN 2 ELSE 1

\* The number of points the bottom outer taper step emits for geometry g.
BottomPoints(g) == IF g.taper.bottom.outer.height_in_mm > 0 THEN 2 ELSE 1

\* The index of the first point of the outer top taper step.
OuterTopAt(g) == 2 + InnerTopPoints(g)

\* C21 as claimed: outer top taper step of the vertex walk: if the top outer
\* taper height is > 0 the decoder emits
\* (outerRadius - outer.height * tan(outer.angle), height) and then
\* (outerRadius, height - outer.height); otherwise the single point
\* (outerRadius, height).
C21_OuterTopAtHeight ==
    Decoded =>
        LET g == resource.data.geometry
            outer == g.taper.top.outer
            at == OuterTopAt(g)
        IN IF outer.height_in_mm > 0
           THEN /\ Point(at) = <<g.radius_in_mm
                                   - Mul(outer.height_in_mm, tan(outer.angle_in_deg)),
                                 g.height_in_mm>>
                /\ Point(at + 1) = <<g.radius_in_mm,
                                     g.height_in_mm - outer.height_in_mm>>
           ELSE Point(at) = <<g.radius_in_mm, g.height_in_mm>>

\* C21 as amended: the top face is at height coordinate 0: if the top outer
\* taper height is > 0 the decoder emits
\* (outerRadius - outer.height * tan(outer.angle), 0) and then
\* (outerRadius, outer.height); otherwise the single point (outerRadius, 0).
\* The step follows the inner top taper step directly.
C21_OuterTopTaperStep ==
    Decoded =>
        LET g == resource.data.geometry
            outer == g.taper.top.outer
            at == OuterTopAt(g)
        IN IF outer.height_in_mm > 0
           THEN /\ Point(at) = <<g.radius_in_mm
                                   - Mul(outer.height_in_mm, tan(outer.angle_in_deg)),
                                 0>>
                /\ Point(at + 1) = <<g.radius_in_mm, outer.height_in_mm>>
           ELSE Point(at) = <<g.radius_in_mm, 0>>

C21_Witness ==
    /\ Decoded
    /\ resource.data.geometry.taper.top.inner.height_in_mm > 0
    /\ resource.data.geometry.taper.top.outer = Taper(30, R(6))
    /\ Point(4) = <<R(40) - 3462, 0>>
    /\ Point(5) = <<R(40), R(6)>>

\* The index of the first point of the bottom outer taper step.
BottomAt(g) == OuterTopAt(g) + OuterTopPoints(g)

\* C22 as claimed: bottom outer taper step of the vertex walk: if the bottom
\* outer taper height is > 0 the decoder emits
\* (outerRadius, height - taper.height) and then
\* (outerRadius - taper.height * tan(angle), 0); otherwise the single point
\* (outerRadius, 0). The presence test uses the bottom taper's own height.
C22_BottomAtZero ==
    Decoded =>
        LET g == resource.data.geometry
            bottom == g.taper.bottom.outer
            at == BottomAt(g)
        IN IF bottom.height_in_mm > 0
           THEN /\ Point(at) = <<g.radius_in_mm,
                                 g.height_in_mm - bottom.height_in_mm>>
                /\ Point(at + 1) = <<g.radius_in_mm
                                       - Mul(bottom.height_in_mm, tan(bottom.angle_in_deg)),
                                     0>>
           ELSE Point(at) = <<g.radius_in_mm, 0>>

\* C22 as amended: the bottom face is at height coordinate height: if the
\* bottom outer taper height is > 0 the decoder emits
\* (outerRadius, height - taper.height) and then
\* (outerRadius - taper.height * tan(angle), height); otherwise the single
\* point (outerRadius, height). The presence test uses the bottom taper's
\* own height, not the top outer taper's, and the step follows the outer
\* top taper step directly.
C22_BottomTaperStep ==
    Decoded =>
        LET g == resource.data.geometry
            bottom == g.taper.bottom.outer
            at == BottomAt(g)
        IN /\ Len(det.crystalLV.pR) = at + BottomPoints(g) + 5
           /\ IF bottom.height_in_mm > 0
              THEN /\ Point(at) = <<g.radius_in_mm,
                                    g.height_in_mm - bottom.height_in_mm>>
                   /\ Point(at + 1) = <<g.radius_in_mm
                                          - Mul(bottom.height_in_mm, tan(bottom.angle_in_deg)),
                                        g.height_in_mm>>
              ELSE Point(at) = <<g.radius_in_mm, g.height_in_mm>>

C22_Witness ==
    /\ Decoded
    /\ resource.data.geometry.taper.top.outer.height_in_mm = 0
    /\ resource.data.geometry.taper.top.inner.height_in_mm = 0
    /\ resource.data.geometry.taper.bottom.outer = Taper(45, R(5))
    /\ Point(4) = <<R(40), R(75)>>
    /\ Point(5) = <<R(35), R(80)>>

\* The index of the first point of the groove step.
GrooveAt(g) == BottomAt(g) + BottomPoints(g)

\* C23 as claimed: groove step of the vertex walk: after the bottom taper
\* the decoder always emits, in this order, (grooveOuterRadius, 0),
\* (grooveOuterRadius, groove.depth),
\* (grooveOuterRadius - groove.width, groove.depth),
\* (grooveOuterRadius - groove.width, 0).
C23_GrooveAtZero ==
    Decoded =>
        LET g == resource.data.geometry
            grad == g.groove.outer_radius_in_mm
            gdepth == g.groove.depth_in_mm
            gwidth == g.groove.width_in_mm
            at == GrooveAt(g)
        IN /\ Point(at) = <<grad, 0>>
           /\ Point(at + 1) = <<grad, gdepth>>
           /\ Point(at + 2) = <<grad - gwidth, gdepth>>
           /\ Point(at + 3) = <<grad - gwidth, 0>>

\* C23 as amended: after the bottom taper the decoder always emits, in this
\* order, (grooveOuterRadius, height), (grooveOuterRadius, height - depth),
\* (grooveOuterRadius - width, height - depth),
\* (grooveOuterRadius - width, height): a rectangular notch cut from the
\* face on which the bottom taper ends, which is at height coordinate height.
C23_GrooveStep ==
    Decoded =>
        LET g == resource.data.geometry
            h == g.height_in_mm
            grad == g.groove.outer_radius_in_mm
            gdepth == g.groove.depth_in_mm
            gwidth == g.groove.width_in_mm
            at == GrooveAt(g)
        IN /\ Point(at) = <<grad, h>>
           /\ Point(at + 1) = <<grad, h - gdepth>>
           /\ Point(at + 2) = <<grad - gwidth, h - gdepth>>
           /\ Point(at + 3) = <<grad - gwidth, h>>
           /\ Point(at - 1)[2] = h

C23_Witness ==
    /\ Decoded
    /\ TapersPresent(resource.data.geometry) = 3
    /\ GrooveAt(resource.data.geometry) = 8
    /\ Point(8) = <<R(15), R(80)>>
    /\ Point(9) = <<R(15), R(78)>>
    /\ Point(10) = <<R(12), R(78)>>
    /\ Point(11) = <<R(12), R(80)>>

\* C24 as claimed: start and closure of the vertex walk: the first point is
\* (well.radius, height - well.gap); the last two points are (0, 0) and then
\* (0, height - well.gap), so the last point lies on the axis at the height
\* of the first point.
C24_ClosureFromZero ==
    Decoded =>
        LET g == resource.data.geometry
            last == Len(det.crystalLV.pR)
        IN /\ Point(1) = <<g.well.radius_in_mm, g.height_in_mm - g.well.gap_in_mm>>
           /\ Point(last - 1) = <<0, 0>>
           /\ Point(last) = <<0, g.height_in_mm - g.well.gap_in_mm>>

\* C24 as amended: the first point is (well.radius, height - well.gap); the
\* last two points are (0, height) and then (0, height - well.gap), so the
\* last point lies on the axis at the height of the first point and the
\* implicit closing edge is the horizontal well floor.
C24_StartAndClosure ==
    Decoded =>
        LET g == resource.data.geometry
            last == Len(det.crystalLV.pR)
        IN /\ Point(1) = <<g.well.radius_in_mm, g.height_in_mm - g.well.gap_in_mm>>
           /\ Point(last - 1) = <<0, g.height_in_mm>>
           /\ Point(last) = <<0, g.height_in_mm - g.well.gap_in_mm>>
           /\ Point(last)[2] = Point(1)[2]
           /\ last = GrooveAt(g) + 5

C24_Witness ==
    /\ Decoded
    /\ TapersPresent(resource.data.geometry) = 1
    /\ Len(det.crystalLV.pR) = 11
    /\ Point(1) = <<R(5), R(50)>>
    /\ Point(10) = <<0, R(80)>>
    /\ Point(11) = <<0, R(50)>>

---------------------------------------------------------------------------
(* The strings of the single-tower layout                                  *)

\* Both loops have run and the tower loop has not begun: local_store, which
\* no later statement assigns, is complete.
LocalComplete == pc = "towers_init"

\* The coordinate local_store holds for (string s, layer l).
LocalAt(s, l) ==
    local_store[CHOOSE m \in 1..Len(local_store) :
                    /\ local_store[m][1][1] = s
                    /\ local_store[m][1][2] = l][2]

\* C25: within every string of the local layout, outer and inner, layer 0
\* has the highest z, z decreases by exactly one pitch (gap + unit height =
\* 160 mm) from each layer to the next, and the stack is centred on the
\* tower-local origin: z(layer i) + z(layer 7 - i) = 0 for every i.
C25_LayerStack ==
    LocalComplete =>
        \A s \in 0..13 :
            /\ \A l \in 1..7 : LocalAt(s, l)[3] = LocalAt(s, l - 1)[3] - R(160)
            /\ \A l \in 1..7 : LocalAt(s, 0)[3] > LocalAt(s, l)[3]
            /\ \A l \in 0..7 : LocalAt(s, l)[3] + LocalAt(s, 7 - l)[3] = 0

C25_Witness ==
    /\ LocalComplete
    /\ LocalAt(0, 0)[3] = R(560)
    /\ LocalAt(13, 7)[3] = -R(560)
    /\ LocalAt(12, 3)[3] = R(80)

C27_ZminIsMinimum ==
    LocalComplete =>
        /\ \A m \in 1..Len(local_store) : zmin <= local_store[m][2][3]
        /\ \E m \in 1..Len(local_store) : zmin = local_store[m][2][3]
        /\ \E m \in 1..Len(local_store) :
              local_store[m][1][1] >= 12 /\ zmin = local_store[m][2][3]

C27_Witness ==
    /\ LocalComplete
    /\ zmin = -R(560)
    /\ LocalAt(13, 7)[3] = -R(560)
    /\ LocalAt(0, 7)[3] = -R(560)

---------------------------------------------------------------------------
(* Configured mode                                                         *)

\* placement_map has been built from the composite map.
Reduced == ConfiguredMode /\ pc \in {"read", "placing", "done", "raised"}

\* C28: dropping copyNumber loses no slot: the projection of the keys of the
\* composite map onto (tower, string, layer) is injective, so the reduced
\* placement map of configured mode has exactly as many entries as the
\* composite map and maps each (tower, string, layer) to the coordinate of
\* the full key.
C28_ProjectionInjective ==
    Reduced =>
        /\ Len(placement_map) = Len(locStore)
        /\ Len(placement_map) = 448
        /\ \A m \in 1..Len(locStore) :
              /\ placement_map[m][1] =
                    <<locStore[m][1][1], locStore[m][1][2], locStore[m][1][3]>>
              /\ placement_map[m][2] = locStore[m][2]
        /\ Cardinality({placement_map[m][1] : m \in 1..Len(placement_map)}) = 448

C28_Witness ==
    /\ Reduced
    /\ pc = "read"
    /\ placement_map[448] = <<<<3, 13, 7>>, <<0, -R(135), -R(1900)>>>>
    /\ locStore[448][1] = <<3, 13, 7, 447>>

\* The reader raised csv.Error.
CsvErrorRead == \E m \in 1..Len(rows) : rows[m] = CsvErrorRow

\* C29: configured mode reads all rows before placing any: no placement is
\* emitted while the table is being read, and when the read loop is aborted
\* by a csv.Error the pass returns with zero placements emitted, also for
\* the well-formed rows that precede the failing one.
C29_ReadBeforePlace ==
    /\ pc = "read" => placements = <<>>
    /\ (ConfiguredMode /\ CsvErrorRead) =>
          /\ placements = <<>>
          /\ pc = "done"
          /\ exception = NoException

C29_Witness ==
    /\ ConfiguredMode
    /\ rows = <<Row(str(0), str(0), str(0), <<"a.json">>), CsvErrorRow>>
    /\ Len(placementlist) = 1
    /\ ~lv_list[1].isNone
    /\ pc = "done"
    /\ placements = <<>>
    /\ Len(warnings) = 1

\* A well-formed row whose shape resource cannot be opened or parsed, or
\* lacks det_name.
UnreadableRow(row) == WellFormed(row) /\ Unreadable(FileSystem(row["filename"]))

\* The warnings logged for the shape resource of a row.
ShapeWarnings(row) ==
    SelectSeq(warnings, LAMBDA w : w.logger = "icpc" /\ w.file = row["filename"])

\* C30: configured mode: a row whose shape resource cannot be opened or
\* parsed as JSON, or lacks det_name, produces a warning and no placement
\* for that row, while every other row with a resolvable slot and a
\* decodable shape is still placed; the number of emitted placements never
\* exceeds the number of rows read. Stated of the tables every row of which
\* is such a row or a placeable one.
C30_UnreadableRowSkipped ==
    /\ ConfiguredMode => Len(placements) <= Len(rows)
    /\ (/\ ConfiguredMode
        /\ Ended
        /\ \A m \in 1..Len(rows) : UnreadableRow(rows[m]) \/ Placeable(rows[m])
        /\ \E m \in 1..Len(rows) : UnreadableRow(rows[m]))
       => /\ pc = "done"
          /\ exception = NoException
          /\ \A m \in 1..Len(rows) :
                UnreadableRow(rows[m]) => Len(ShapeWarnings(rows[m])) >= 1
          /\ PlacementsEmitted = PlacementsClaimed

===========================================================================
